---- MODULE Spec2Model ----
(***************************************************************************)
(* State-machine model of the esp32-wroom-rp host driver: the control      *)
(* lines (gpio.rs), the NINA protocol engine over SPI (spi.rs: execute,    *)
(* receive, receive_data16 and their helpers) and the facade commands      *)
(* that compose one execute with one receive.                              *)
(***************************************************************************)
EXTENDS Integers, Sequences, FiniteSets, TLC

VARIABLES
    pc,       \* the next statement of the running call ("idle" between calls)
    fn,       \* the engine function that is running
    cmd,      \* the facade command that is running (or ran last)
    op,       \* the Operation handed to execute / receive
    cs,       \* chip-select output level
    gpio0,    \* boot-mode output level
    resetn,   \* reset output level
    ack,      \* ready/ack input level, driven by the peer
    ctlLog,   \* pin operations and delays of the running init / reset call
    tx,       \* bytes written to the bus by the running execute call
    pidx,     \* index of the parameter execute's for_each is at
    tpl,      \* execute's total_params_length (u16)
    tpls,     \* execute's total_params_length_size (u16)
    npad,     \* padding reads done by pad_to_multiple_of_4
    nread,    \* bus reads done by the running wait_for_byte
    hdr,      \* what check_response_ready returned
    rlen,     \* response length decoded by read_response / read_response16
    npay,     \* payload bytes read by read_response_bytes
    endb,     \* the byte read at the END position (-1: not read)
    errFirst, \* whether the first byte the running receive read was ERROR
    lenb,     \* the length bytes read_response16 read, in the order read
    buf,      \* response_param_buffer (and the buffer a call returned)
    rxres,    \* what receive / receive_data16 returned
    result,   \* what the facade command returned
    events,   \* observable phases of the running command, in order
    csAtRet,  \* chip-select level when the last engine call returned
    pinErr,   \* whether a pin operation has reported an error
    sampled,  \* the level the ready/ack line had when it was last sampled
    startAt,  \* the read of the running wait_for_byte that yielded wait_byte
    errAt,    \* the read of the running wait_for_byte that yielded ERROR
    extraStart, \* whether a byte consumed after ERROR was START
    available_data_length, \* receive_data's local
    data_length,           \* receive_data's local
    result_buffer_idx,     \* receive_data's local
    result_buffer,         \* receive_data's local
    response_buffer,       \* receive_data's local: the chunk's buffer
    ip_address,            \* resolve's local
    calls,    \* delays and facade commands of the running compound command
    maxIdx    \* largest index receive_data used on result_buffer (-1: none)

vars == <<pc, fn, cmd, op, cs, gpio0, resetn, ack, ctlLog, tx, pidx, tpl, tpls,
          npad, nread, hdr, rlen, npay, endb, errFirst, lenb, buf, rxres, result,
          events, csAtRet, pinErr, sampled, startAt, errAt, extraStart,
          available_data_length, data_length, result_buffer_idx, result_buffer,
          response_buffer, ip_address, calls, maxIdx>>

----------------------------------------------------------------------------
(* Program constants *)

START == 224
END == 238
REPLY == 128
DUMMY == 255
ERROR == 239
RETRY_LIMIT == 1000
MAX_NINA_PARAMS == 8
MAX_NINA_RESPONSE_LENGTH == 5744
MAX_SMALL_LEN == 255
MAX_LARGE_LEN == 65535
GET_FW_VERSION == 55
START_CLIENT_TCP == 45
SET_PASSPHRASE == 17
SEND_DATA_TCP == 68
GET_DATA_BUF_TCP == 69

(* Bounds of the model *)

MaxStrLen == 2
MaxOpParams == 2

U16 == 65536

----------------------------------------------------------------------------
(* Bytes and words *)

\* x & !(ControlByte::Reply): clear bit 7 of a byte
ClearReply(b) == IF b >= REPLY THEN b - REPLY ELSE b
\* x | ControlByte::Reply: set bit 7 of a byte
SetReply(b) == IF b >= REPLY THEN b ELSE b + REPLY

combine_2_bytes(byte0, byte1) == ((byte1 * 256) % U16) + (byte0 % 256)
\* the two bytes of a word with the low byte first
split_word_low_first(word) == <<word % 256, (word % U16) \div 256>>
split_word(word) == <<(word % U16) \div 256, word % 256>>

----------------------------------------------------------------------------
(* Parameters and operations (protocol module) *)

\* A payload of len bytes that repeats the pattern pat
PatByte(pat, i) == pat[((i - 1) % Len(pat)) + 1]
Bytes(len, pat) == [i \in 1..len |-> PatByte(pat, i)]

\* NinaByteParam / NinaWordParam / NinaSmallArrayParam: 1 length byte;
\* construction fails (PayloadTooLarge) when the payload is too long
NinaSmallParam(len, pat) ==
    <<1, len, pat, len <= MAX_SMALL_LEN>>
\* NinaLargeArrayParam: 2 length bytes
NinaLargeParam(len, pat) ==
    <<2, len, pat, len <= MAX_LARGE_LEN>>

\* A parameter is <<length-prefix width, payload length, payload pattern,
\* whether its construction succeeded>>
length_size(p) == p[1]
length(p) == p[2]
Pattern(p) == p[3]
Built(p) == p[4]
length_as_bytes(p) ==
    IF length_size(p) = 1 THEN <<length(p) % 256>> ELSE split_word(length(p))
data(p) == Bytes(length(p), Pattern(p))

\* An operation is <<command, params>>
Operation(c, ps) == <<c, ps>>
Command(o) == o[1]
Params(o) == o[2]
NoOp == Operation(0, <<>>)
AllOk(ps) == \A i \in 1..Len(ps) : Built(ps[i])

----------------------------------------------------------------------------
(* Results *)

NoBuf == <<>>
ZeroBuf == [i \in 1..MAX_NINA_RESPONSE_LENGTH |-> 0]
\* A returned value; a returned buffer is the variable buf
Res(kind, err, len) == <<kind, err, len>>
Kind(r) == r[1]
ErrOf(r) == r[2]
LenOf(r) == r[3]
NoRes == Res("none", "", 0)
Ok == Res("Ok", "", 0)
OkLen(n) == Res("Ok", "", n)
Err(e) == Res("Err", e, 0)
Panicked == Res("Panic", "", 0)

Level == {"low", "high"}
Flip(l) == IF l = "low" THEN "high" ELSE "low"

exVars == <<tx, pidx, tpl, tpls, npad>>
rxVars == <<nread, hdr, rlen, npay, endb, errFirst, lenb, buf, rxres>>
pins == <<cs, gpio0, resetn>>
wfbVars == <<startAt, errAt, extraStart>>
rdVars == <<available_data_length, data_length, result_buffer_idx,
            result_buffer, response_buffer, ip_address, calls, maxIdx>>

\* A phase is logged once however many bytes it takes
Phase(log, e) ==
    IF log # <<>> /\ log[Len(log)] = e THEN log ELSE Append(log, e)

Init ==
    /\ pc = "new"
    /\ fn = "none"
    /\ cmd = "none"
    /\ op = NoOp
    /\ cs \in Level
    /\ gpio0 \in Level
    /\ resetn \in Level
    /\ ack \in Level
    /\ ctlLog = <<>>
    /\ tx = <<>>
    /\ pidx = 0
    /\ tpl = 0
    /\ tpls = 0
    /\ npad = 0
    /\ nread = 0
    /\ hdr = "none"
    /\ rlen = 0
    /\ npay = 0
    /\ endb = -1
    /\ errFirst = FALSE
    /\ lenb = <<>>
    /\ buf = NoBuf
    /\ rxres = NoRes
    /\ result = NoRes
    /\ events = <<>>
    /\ csAtRet = "none"
    /\ pinErr = FALSE
    /\ sampled = "none"
    /\ startAt = 0
    /\ errAt = 0
    /\ extraStart = FALSE
    /\ available_data_length = 0
    /\ data_length = 0
    /\ result_buffer_idx = 0
    /\ result_buffer = NoBuf
    /\ response_buffer = NoBuf
    /\ ip_address = <<0, 0, 0, 0>>
    /\ calls = <<>>
    /\ maxIdx = -1

----------------------------------------------------------------------------
(* Control lines (gpio.rs) *)

\* `.ok().unwrap()` on a pin operation that reported an error
PinPanic ==
    /\ pc' = "panic"
    /\ pinErr' = TRUE
    /\ result' = Panicked
    /\ UNCHANGED <<fn, cmd, op, pins, ack, ctlLog, exVars, rxVars, events, csAtRet, rdVars, wfbVars, sampled>>

\* The peer drives the ready/ack line; its level matters where it is sampled
PeerDrivesAck ==
    /\ pc \in {"init_ready", "wait_ready", "wait_ack"}
    /\ ack' = Flip(ack)
    /\ UNCHANGED <<pc, fn, cmd, op, pins, ctlLog, exVars, rxVars, result, events,
                   csAtRet, pinErr, rdVars, wfbVars, sampled>>

\* One statement of init / reset: an output pin is driven to a level
SetPin(pin, lvl) ==
    /\ cs' = IF pin = "cs" THEN lvl ELSE cs
    /\ gpio0' = IF pin = "gpio0" THEN lvl ELSE gpio0
    /\ resetn' = IF pin = "resetn" THEN lvl ELSE resetn
    /\ ctlLog' = Append(ctlLog, <<pin, lvl>>)

CtlStep(from, to, pin, lvl) ==
    /\ pc = from
    /\ \E ok \in BOOLEAN :
        IF ok
        THEN /\ SetPin(pin, lvl)
             /\ pc' = to
             /\ UNCHANGED <<cmd, op, ack, exVars, rxVars, result, events, csAtRet,
                            pinErr, rdVars, wfbVars, sampled>>
        ELSE PinPanic

InitCs ==
    /\ pc = "new"
    /\ \E ok \in BOOLEAN :
        IF ok
        THEN /\ cs' = "high"
             /\ ctlLog' = <<(<<"cs", "high">>)>>
             /\ pc' = "init_gpio0"
             /\ fn' = "init"
             /\ UNCHANGED <<cmd, op, gpio0, resetn, ack, exVars, rxVars, result,
                            events, csAtRet, pinErr, rdVars, wfbVars, sampled>>
        ELSE PinPanic

\* init that drives the reset line low
InitResetnLow == CtlStep("init_resetn", "init_ready", "resetn", "low") /\ fn' = fn

InitGpio0 == CtlStep("init_gpio0", "init_resetn", "gpio0", "high") /\ fn' = fn
InitResetn == CtlStep("init_resetn", "init_ready", "resetn", "high") /\ fn' = fn

\* self.get_esp_ready(): the line is sampled once and the value discarded
InitGetEspReady ==
    /\ pc = "init_ready"
    /\ \E ok \in BOOLEAN :
        IF ok
        THEN /\ ctlLog' = Append(ctlLog, <<"ack", "is_low">>)
             /\ pc' = "idle"
             /\ fn' = "none"
             /\ sampled' = ack
             /\ UNCHANGED <<cmd, op, pins, ack, exVars, rxVars, result, events,
                            csAtRet, pinErr, rdVars, wfbVars>>
        ELSE PinPanic

ResetGpio0 ==
    /\ pc = "idle"
    /\ \E ok \in BOOLEAN :
        IF ok
        THEN /\ gpio0' = "high"
             /\ ctlLog' = <<(<<"gpio0", "high">>)>>
             /\ pc' = "reset_cs"
             /\ fn' = "reset"
             /\ UNCHANGED <<cmd, op, cs, resetn, ack, exVars, rxVars, result,
                            events, csAtRet, pinErr, rdVars, wfbVars, sampled>>
        ELSE PinPanic

\* a reset that never pulls the reset line low
ResetResetnNotLow ==
    CtlStep("reset_low", "reset_delay10", "resetn", "high") /\ fn' = fn

ResetCs == CtlStep("reset_cs", "reset_low", "cs", "high") /\ fn' = fn
ResetResetnLow == CtlStep("reset_low", "reset_delay10", "resetn", "low") /\ fn' = fn

ResetDelay(from, to, ms) ==
    /\ pc = from
    /\ ctlLog' = Append(ctlLog, <<"delay", ToString(ms)>>)
    /\ pc' = to
    /\ fn' = IF to = "idle" THEN "none" ELSE fn
    /\ UNCHANGED <<cmd, op, pins, ack, exVars, rxVars, result, events, csAtRet,
                   pinErr, rdVars, wfbVars, sampled>>

ResetDelay10 == ResetDelay("reset_delay10", "reset_high", 10)
ResetResetnHigh == CtlStep("reset_high", "reset_delay750", "resetn", "high") /\ fn' = fn
ResetDelay750 == ResetDelay("reset_delay750", "idle", 750)

\* a wait that goes on to select after one sample, whatever the level
WaitForEspReadyAny ==
    /\ pc = "wait_ready"
    /\ sampled' = ack
    /\ pc' = "select"
    /\ UNCHANGED <<fn, cmd, op, pins, ack, ctlLog, exVars, rxVars, result,
                   events, csAtRet, pinErr, rdVars, wfbVars>>

\* wait_for_esp_ready: spin until ack.is_low()
WaitForEspReady ==
    /\ pc = "wait_ready"
    /\ \E ok \in BOOLEAN :
        IF ok
        THEN /\ pc' = IF ack = "low" THEN "select" ELSE "wait_ready"
             /\ sampled' = ack
             /\ UNCHANGED <<fn, cmd, op, pins, ack, ctlLog, exVars, rxVars, result,
                            events, csAtRet, pinErr, rdVars, wfbVars>>
        ELSE PinPanic

\* Where the caller of wait_for_esp_select goes on
AfterSelect(f) == IF f = "execute" THEN "send_cmd" ELSE "wait_for_byte"

EspSelect ==
    /\ pc = "select"
    /\ \E ok \in BOOLEAN :
        IF ok
        THEN /\ cs' = "low"
             /\ events' = Append(events, "select")
             /\ pc' = "wait_ack"
             /\ UNCHANGED <<fn, cmd, op, gpio0, resetn, ack, ctlLog, exVars, rxVars,
                            result, csAtRet, pinErr, rdVars, wfbVars, sampled>>
        ELSE PinPanic

\* wait_for_esp_ack: spin until ack.is_high()
WaitForEspAck ==
    /\ pc = "wait_ack"
    /\ \E ok \in BOOLEAN :
        IF ok
        THEN /\ pc' = IF ack = "high" THEN AfterSelect(fn) ELSE "wait_ack"
             /\ sampled' = ack
             /\ UNCHANGED <<fn, cmd, op, pins, ack, ctlLog, exVars, rxVars, result,
                            events, csAtRet, pinErr, rdVars, wfbVars>>
        ELSE PinPanic

----------------------------------------------------------------------------
(* Facade commands (spi.rs, impl ProtocolInterface): the parameters built *)

SmallLens == (0..MaxStrLen) \cup {MAX_SMALL_LEN, MAX_SMALL_LEN + 1}
LargeLens == (1..MaxStrLen) \cup {MAX_LARGE_LEN, MAX_LARGE_LEN + 1}
Str(len, pat) == <<len, pat>>
StrLen(str) == str[1]
StrPat(str) == str[2]

get_fw_version == <<>>
set_passphrase(ssid, passphrase) ==
    <<NinaSmallParam(StrLen(ssid), StrPat(ssid)),
      NinaSmallParam(StrLen(passphrase), StrPat(passphrase))>>
start_client_tcp(socket, ip, port, mode) ==
    <<NinaSmallParam(4, ip), NinaSmallParam(2, split_word(port)),
      NinaSmallParam(1, <<socket>>), NinaSmallParam(1, <<mode>>)>>
send_data(str, socket) ==
    <<NinaLargeParam(1, <<socket>>), NinaLargeParam(StrLen(str), StrPat(str))>>
get_data_buf_tcp(socket, available_length) ==
    <<NinaLargeParam(1, <<socket>>),
      NinaLargeParam(2, split_word(available_length % U16))>>

\* Which response variant the command reads its reply with ("none": the
\* operation is only executed)
Variant(c) ==
    IF c = "execute" THEN "none"
    ELSE IF c = "get_data_buf_tcp" THEN "receive_data16" ELSE "receive"

\* A command that performs a round trip after its params were built 
FacadeLate(c, code, ps) ==
    /\ pc = "idle"
    /\ cmd' = c
    /\ op' = Operation(code, ps)
    /\ IF AllOk(ps)
       THEN /\ fn' = "execute"
            /\ pc' = "wait_ready"
            /\ result' = NoRes
            /\ cs' = cs
            /\ events' = <<>>
       ELSE /\ fn' = "none"
            /\ pc' = "idle"
            /\ result' = Err("PayloadTooLarge")
            /\ cs' = "low"
            /\ events' = <<"select">>
    /\ tx' = <<>>
    /\ pidx' = 0 /\ tpl' = 0 /\ tpls' = 0 /\ npad' = 0
    /\ nread' = 0 /\ hdr' = "none" /\ rlen' = 0 /\ npay' = 0 /\ endb' = -1
    /\ errFirst' = FALSE /\ lenb' = <<>>
    /\ buf' = NoBuf /\ rxres' = NoRes
    /\ csAtRet' = "none"
    /\ UNCHANGED <<gpio0, resetn, ack, ctlLog, pinErr, rdVars, wfbVars, sampled>>

\* `Operation::new(code).param(X::new(..)?)...; self.execute(&operation)?`:
\* every parameter is built before execute is called, and the first failure
\* returns
Facade(c, code, ps) ==
    /\ pc = "idle"
    /\ cmd' = c
    /\ op' = Operation(code, ps)
    /\ IF AllOk(ps)
       THEN /\ fn' = "execute"
            /\ pc' = "wait_ready"
            /\ result' = NoRes
       ELSE /\ fn' = "none"
            /\ pc' = "idle"
            /\ result' = Err("PayloadTooLarge")
    /\ events' = <<>>
    /\ tx' = <<>>
    /\ pidx' = 0 /\ tpl' = 0 /\ tpls' = 0 /\ npad' = 0
    /\ nread' = 0 /\ hdr' = "none" /\ rlen' = 0 /\ npay' = 0 /\ endb' = -1
    /\ errFirst' = FALSE /\ lenb' = <<>>
    /\ buf' = NoBuf /\ rxres' = NoRes
    /\ csAtRet' = "none"
    /\ UNCHANGED <<pins, ack, ctlLog, pinErr, rdVars, wfbVars, sampled>>

GetFwVersion == Facade("get_fw_version", GET_FW_VERSION, get_fw_version)

SetPassphrase ==
    \E l1 \in SmallLens, l2 \in SmallLens :
        Facade("set_passphrase", SET_PASSPHRASE,
               set_passphrase(Str(l1, <<10>>), Str(l2, <<112, 119>>)))

StartClientTcp ==
    \E port \in {80, 4242} :
        Facade("start_client_tcp", START_CLIENT_TCP,
               start_client_tcp(0, <<8, 8, 4, 4>>, port, 0))

SendData ==
    \E l \in LargeLens :
        Facade("send_data", SEND_DATA_TCP, send_data(Str(l, <<104, 105>>), 0))

GetDataBufTcp ==
    \E n \in {1, 5743} :
        Facade("get_data_buf_tcp", GET_DATA_BUF_TCP, get_data_buf_tcp(0, n))

\* execute on an arbitrary operation: any count and mix of parameters
ParamKinds ==
    {NinaSmallParam(l, <<l + 1>>) : l \in 0..MaxStrLen}
        \cup {NinaLargeParam(l, <<l + 65>>) : l \in 0..MaxStrLen}
ParamLists(n) == UNION {[1..k -> ParamKinds] : k \in 0..n}
Execute ==
    \E ps \in ParamLists(MaxOpParams) : Facade("execute", GET_FW_VERSION, ps)

----------------------------------------------------------------------------
(* execute (spi.rs) *)

\* u16 arithmetic: with overflow checks the addition panics, without it wraps
Overflows(x) == x >= U16
Outcomes(x) == IF Overflows(x) THEN {"wrap", "panic"} ELSE {"exact"}

ArithPanic ==
    /\ pc' = "panic"
    /\ result' = Panicked
    /\ UNCHANGED <<fn, cmd, op, pins, ack, ctlLog, rxVars, csAtRet, pinErr, rdVars, wfbVars, sampled>>

\* send_cmd that leaves END to the parameter block
send_cmd_no_end(c, num_params) == <<START, ClearReply(c), num_params>>

\* The bytes send_cmd transfers
send_cmd(c, num_params) ==
    <<START, ClearReply(c), num_params>>
        \o (IF num_params = 0 THEN <<END>> ELSE <<>>)

number_of_params(o) == IF Params(o) # <<>> THEN Len(Params(o)) % 256 ELSE 0

ExecuteSendCmd ==
    /\ pc = "send_cmd"
    /\ tx' = tx \o send_cmd(Command(op), number_of_params(op))
    /\ events' = IF number_of_params(op) = 0
                 THEN events \o <<"header", "end">>
                 ELSE Append(events, "header")
    /\ pidx' = 1
    /\ pc' = IF Params(op) # <<>> THEN "send_param" ELSE "ex_deselect"
    /\ UNCHANGED <<fn, cmd, op, pins, ack, ctlLog, tpl, tpls, npad, rxVars, result,
                   csAtRet, pinErr, rdVars, wfbVars, sampled>>

\* The bytes send_param transfers: the length prefix, then the payload
send_param_length(p) == SubSeq(length_as_bytes(p), 1, length_size(p))
send_param(p) == send_param_length(p) \o data(p)

\* One iteration of the for_each closure
ExecuteSendParam ==
    /\ pc = "send_param"
    /\ LET p == Params(op)[pidx]
           l == tpl + length(p)
           s == tpls + length_size(p)
       IN /\ tx' = tx \o send_param(p)
          /\ events' = Phase(events, "params")
          /\ \E o1 \in Outcomes(l), o2 \in Outcomes(s) :
                IF o1 = "panic" \/ o2 = "panic"
                THEN /\ ArithPanic
                     /\ UNCHANGED <<pidx, tpl, tpls, npad>>
                ELSE /\ tpl' = l % U16
                     /\ tpls' = s % U16
                     /\ pidx' = pidx + 1
                     /\ pc' = IF pidx = Len(Params(op)) THEN "send_end"
                              ELSE "send_param"
                     /\ UNCHANGED <<fn, cmd, op, pins, ack, ctlLog, npad, rxVars,
                                    result, csAtRet, pinErr, rdVars, wfbVars, sampled>>

send_end_cmd == <<END>>

ExecuteSendEnd ==
    /\ pc = "send_end"
    /\ tx' = tx \o send_end_cmd
    /\ events' = Append(events, "end")
    /\ pc' = "pad"
    /\ UNCHANGED <<fn, cmd, op, pins, ack, ctlLog, pidx, tpl, tpls, npad, rxVars,
                   result, csAtRet, pinErr, rdVars, wfbVars, sampled>>

\* The number of get_byte calls of pad_to_multiple_of_4 (command_size wraps)
RECURSIVE pad_to_multiple_of_4(_)
pad_to_multiple_of_4(command_size) ==
    IF command_size % 4 # 0
    THEN 1 + pad_to_multiple_of_4((command_size + 1) % U16)
    ELSE 0

\* command_size that forgets the END byte
command_size_no_end(size, total) == 3 + size + total

\* let command_size = 4 + total_params_length_size + total_params_length
command_size(size, total) == 4 + size + total

ExecutePad ==
    /\ pc = "pad"
    /\ LET c == command_size(tpls, tpl)
           k == pad_to_multiple_of_4(c % U16)
       IN \E o1 \in Outcomes(c), o2 \in Outcomes((c % U16) + k) :
            IF o1 = "panic" \/ o2 = "panic"
            THEN /\ ArithPanic
                 /\ UNCHANGED <<tx, pidx, tpl, tpls, npad, events>>
            ELSE /\ tx' = tx \o [i \in 1..k |-> DUMMY]
                 /\ npad' = k
                 /\ events' = IF k > 0 THEN Append(events, "padding") ELSE events
                 /\ pc' = "ex_deselect"
                 /\ UNCHANGED <<fn, cmd, op, pins, ack, ctlLog, pidx, tpl, tpls,
                                rxVars, result, csAtRet, pinErr, rdVars, wfbVars, sampled>>

\* self.control_pins.esp_deselect(); result
ExecuteDeselect ==
    /\ pc = "ex_deselect"
    /\ \E ok \in BOOLEAN :
        IF ok
        THEN /\ cs' = "high"
             /\ events' = Append(events, "deselect")
             /\ csAtRet' = "high"
             /\ fn' = "none"
             /\ pc' = "after_execute"
             /\ UNCHANGED <<cmd, op, gpio0, resetn, ack, ctlLog, exVars, rxVars,
                            result, pinErr, rdVars, wfbVars, sampled>>
        ELSE PinPanic

\* execute returned Ok(()): `self.execute(&operation)?` goes on to the receive.
\* execute's locals are gone, and receive reads nothing of the operation but
\* its command, so the parameters are not carried along
FacadeAfterExecute ==
    /\ pc = "after_execute"
    /\ IF Variant(cmd) = "none"
       THEN /\ pc' = "idle"
            /\ result' = Ok
            /\ UNCHANGED <<fn, op, exVars>>
       ELSE /\ pc' = "wait_ready"
            /\ fn' = Variant(cmd)
            /\ op' = Operation(Command(op), <<>>)
            /\ tx' = <<>>
            /\ pidx' = 0 /\ tpl' = 0 /\ tpls' = 0 /\ npad' = 0
            /\ UNCHANGED result
    /\ UNCHANGED <<cmd, pins, ack, ctlLog, rxVars, events, csAtRet, pinErr, rdVars, wfbVars, sampled>>

----------------------------------------------------------------------------
(* receive, receive_data16 (spi.rs) *)

expected_num_params == 1

\* What the peer may clock in for a read of the reply to command c
PeerBytes(c) == {0, 1, 2, 9, START, END, ERROR, DUMMY, SetReply(c)}
\* ... for the bytes of a 16-bit length field
PeerLenBytes == {0, 1, 2, 22, 112, 113, START, DUMMY}
\* ... at the END position
PeerEndBytes == {END, 0}
\* ... for a payload: a repeated pattern
PeerPayloads == {<<49, 46, 55, 46, 52>>, <<1>>}

\* a loop that gives up one read later
wait_for_byte_late(byte_read, wait_byte, reads) ==
    IF byte_read = ERROR THEN "consume_err"
    ELSE IF byte_read = wait_byte THEN "check_cmd"
    ELSE IF reads = RETRY_LIMIT + 1 THEN "timeout"
    ELSE "wait_for_byte"

\* One iteration of wait_for_byte's loop, on the byte read
wait_for_byte(byte_read, wait_byte, reads) ==
    IF byte_read = ERROR THEN "consume_err"
    ELSE IF byte_read = wait_byte THEN "check_cmd"
    ELSE IF reads = RETRY_LIMIT THEN "timeout"
    ELSE "wait_for_byte"

WaitForByte ==
    /\ pc = "wait_for_byte"
    /\ \E b \in PeerBytes(Command(op)) :
        LET to == wait_for_byte(b, START, nread + 1)
        IN /\ nread' = nread + 1
           /\ pc' = IF to = "timeout" THEN "hdr_done" ELSE to
           /\ hdr' = IF to = "timeout" THEN "CommunicationTimeout" ELSE hdr
           /\ errFirst' = IF nread = 0 THEN b = ERROR ELSE errFirst
           /\ errAt' = IF b = ERROR THEN nread + 1 ELSE 0
           /\ startAt' = IF b = START THEN nread + 1 ELSE 0
    /\ events' = Phase(events, "read_header")
    /\ UNCHANGED <<fn, cmd, op, pins, ack, ctlLog, exVars, rlen, npay, endb, lenb, buf,
                   rxres, result, csAtRet, pinErr, rdVars, extraStart, sampled>>

\* an error path on which a START among the consumed bytes counts as found
WaitForByteErrorRecover ==
    /\ pc = "consume_err"
    /\ \E b1 \in PeerBytes(Command(op)), b2 \in PeerBytes(Command(op)) :
        /\ extraStart' = (START \in {b1, b2})
        /\ hdr' = IF extraStart' THEN hdr ELSE "NinaProtocolVersionMismatch"
        /\ pc' = IF extraStart' THEN "check_cmd" ELSE "hdr_done"
    /\ nread' = nread + 2
    /\ UNCHANGED <<fn, cmd, op, pins, ack, ctlLog, exVars, rlen, npay, endb,
                   errFirst, lenb, buf, rxres, result, events, csAtRet, pinErr,
                   rdVars, startAt, errAt, sampled>>

\* consume remaining bytes after error: two more reads, whatever they are
WaitForByteError ==
    /\ pc = "consume_err"
    /\ \E b1 \in PeerBytes(Command(op)), b2 \in PeerBytes(Command(op)) :
        extraStart' = (START \in {b1, b2})
    /\ nread' = nread + 2
    /\ hdr' = "NinaProtocolVersionMismatch"
    /\ pc' = "hdr_done"
    /\ UNCHANGED <<fn, cmd, op, pins, ack, ctlLog, exVars, rlen, npay, endb, errFirst, lenb, buf,
                   rxres, result, events, csAtRet, pinErr, rdVars, startAt, errAt, sampled>>

read_and_check_byte(byte, check_byte) == byte = check_byte

CheckCmdByte ==
    /\ pc = "check_cmd"
    /\ \E b \in PeerBytes(Command(op)) :
        IF read_and_check_byte(b, SetReply(Command(op)))
        THEN /\ pc' = "check_num"
             /\ hdr' = hdr
        ELSE /\ pc' = "hdr_done"
             /\ hdr' = "InvalidCommand"
    /\ nread' = 0
    /\ startAt' = 0
    /\ UNCHANGED <<fn, cmd, op, pins, ack, ctlLog, exVars, rlen, npay, endb, errFirst, lenb, buf,
                   rxres, result, events, csAtRet, pinErr, rdVars, errAt, extraStart, sampled>>

CheckNumParams ==
    /\ pc = "check_num"
    /\ \E b \in PeerBytes(Command(op)) :
        hdr' = IF read_and_check_byte(b, expected_num_params) THEN "Ok"
               ELSE "InvalidNumberOfParameters"
    /\ pc' = "hdr_done"
    /\ UNCHANGED <<fn, cmd, op, pins, ack, ctlLog, exVars, nread, rlen, npay, endb, errFirst, lenb,
                   buf, rxres, result, events, csAtRet, pinErr, rdVars, wfbVars, sampled>>

\* receive: `let _result = check_response_ready(..).map_err(|e| { esp_deselect();
\* e })`: on an error chip-select is released, the error is dropped and
\* read_response runs all the same
ReceiveHeaderChecked ==
    /\ pc = "hdr_done"
    /\ fn = "receive"
    /\ IF hdr # "Ok"
       THEN \E ok \in BOOLEAN :
              IF ok
              THEN /\ cs' = "high"
                   /\ events' = Append(events, "deselect")
                   /\ pc' = "read_len"
                   /\ nread' = 0
                   /\ errAt' = 0 /\ extraStart' = FALSE
                   /\ UNCHANGED <<fn, cmd, op, gpio0, resetn, ack, ctlLog, exVars,
                                  hdr, rlen, npay, endb, errFirst, lenb, buf, rxres, result, csAtRet,
                                  pinErr, rdVars, startAt, sampled>>
              ELSE PinPanic
       ELSE /\ pc' = "read_len"
            /\ nread' = 0
            /\ errAt' = 0 /\ extraStart' = FALSE
            /\ UNCHANGED <<fn, cmd, op, pins, ack, ctlLog, exVars, hdr, rlen, npay,
                           endb, errFirst, lenb, buf, rxres, result, events, csAtRet, pinErr, rdVars, startAt, sampled>>

\* receive_data16: `check_response_ready(..)?` returns the error at once
ReceiveData16HeaderChecked ==
    /\ pc = "hdr_done"
    /\ fn = "receive_data16"
    /\ nread' = 0
    /\ errAt' = 0 /\ extraStart' = FALSE
    /\ IF hdr # "Ok"
       THEN /\ rxres' = Err(hdr)
            /\ csAtRet' = cs
            /\ fn' = "none"
            /\ pc' = "after_receive"
       ELSE /\ pc' = "read_len16"
            /\ UNCHANGED <<fn, rxres, csAtRet>>
    /\ UNCHANGED <<cmd, op, pins, ack, ctlLog, exVars, hdr, rlen, npay, endb, errFirst, lenb, buf,
                   result, events, pinErr, rdVars, startAt, sampled>>

\* a fill that leaves the last of the len bytes unread
read_response_bytes_short(buffer, len, stream) ==
    [i \in 1..MAX_NINA_RESPONSE_LENGTH |->
        IF i < len THEN PatByte(stream, i) ELSE buffer[i]]

\* read_response_bytes: the buffer after `iter_mut().take(len)` was filled
\* from the bytes the peer sends, and the number of bytes read
Min(a, b) == IF a < b THEN a ELSE b
bytes_taken(len) == Min(len, MAX_NINA_RESPONSE_LENGTH)
read_response_bytes(buffer, len, stream) ==
    [i \in 1..MAX_NINA_RESPONSE_LENGTH |->
        IF i <= bytes_taken(len) THEN PatByte(stream, i) ELSE buffer[i]]

\* read_response, up to the payload
ReadResponseLen ==
    /\ pc = "read_len"
    /\ \E b \in PeerBytes(Command(op)) :
        /\ rlen' = b
        /\ IF b > MAX_NINA_PARAMS
           THEN /\ rxres' = Err("TooManyParameters")
                /\ pc' = "rx_deselect"
                /\ buf' = buf
           ELSE /\ buf' = ZeroBuf
                /\ pc' = IF b > 0 THEN "read_bytes" ELSE "read_end"
                /\ rxres' = rxres
    /\ events' = Phase(events, "read_body")
    /\ UNCHANGED <<fn, cmd, op, pins, ack, ctlLog, exVars, nread, hdr, npay, endb, errFirst, lenb,
                   result, csAtRet, pinErr, rdVars, wfbVars, sampled>>

\* read_response16, up to the payload
ReadResponse16Len ==
    /\ pc = "read_len16"
    /\ \E b0 \in PeerLenBytes, b1 \in PeerLenBytes :
        /\ lenb' = <<b0, b1>>
        /\ rlen' = combine_2_bytes(b1, b0)
    /\ buf' = ZeroBuf
    /\ pc' = "read_bytes"
    /\ events' = Phase(events, "read_body")
    /\ UNCHANGED <<fn, cmd, op, pins, ack, ctlLog, exVars, nread, hdr, npay, endb, errFirst,
                   rxres, result, csAtRet, pinErr, rdVars, wfbVars, sampled>>

ReadResponseBytes ==
    /\ pc = "read_bytes"
    /\ \E stream \in PeerPayloads :
        buf' = read_response_bytes(buf, rlen, stream)
    /\ npay' = bytes_taken(rlen)
    /\ pc' = "read_end"
    /\ events' = Phase(events, "read_body")
    /\ UNCHANGED <<fn, cmd, op, pins, ack, ctlLog, exVars, nread, hdr, rlen, endb, errFirst, lenb,
                   rxres, result, csAtRet, pinErr, rdVars, wfbVars, sampled>>

\* the byte at the END position read and required to be END
ReadEndChecked ==
    /\ pc = "read_end"
    /\ \E b \in PeerEndBytes :
        /\ endb' = b
        /\ rxres' = IF b # END THEN Err("InvalidCommand")
                     ELSE IF fn = "receive_data16" THEN OkLen(rlen) ELSE Ok
    /\ pc' = "rx_deselect"
    /\ events' = Append(events, "read_end")
    /\ UNCHANGED <<fn, cmd, op, pins, ack, ctlLog, exVars, nread, hdr, rlen, npay, errFirst, lenb,
                   buf, result, csAtRet, pinErr, rdVars, wfbVars, sampled>>

\* `self.read_and_check_byte(&control_byte).ok();` then Ok(..)
ReadEnd ==
    /\ pc = "read_end"
    /\ \E b \in PeerEndBytes : endb' = b
    /\ rxres' = IF fn = "receive_data16" THEN OkLen(rlen) ELSE Ok
    /\ pc' = "rx_deselect"
    /\ events' = Append(events, "read_end")
    /\ UNCHANGED <<fn, cmd, op, pins, ack, ctlLog, exVars, nread, hdr, rlen, npay, errFirst, lenb,
                   buf, result, csAtRet, pinErr, rdVars, wfbVars, sampled>>

\* self.control_pins.esp_deselect(); result
ReceiveDeselect ==
    /\ pc = "rx_deselect"
    /\ \E ok \in BOOLEAN :
        IF ok
        THEN /\ cs' = "high"
             /\ events' = Append(events, "deselect")
             /\ csAtRet' = "high"
             /\ fn' = "none"
             /\ pc' = "after_receive"
             /\ UNCHANGED <<cmd, op, gpio0, resetn, ack, ctlLog, exVars, rxVars,
                            result, pinErr, rdVars, wfbVars, sampled>>
        ELSE PinPanic

\* What the facade command makes of the reply
Reply(c, b) ==
    IF c = "start_client_tcp"
    THEN (IF b[1] = 1 THEN Ok ELSE Err("ConnectFailed"))
    ELSE IF c = "get_data_buf_tcp" THEN rxres
    ELSE Ok

\* `let result = self.receive(&operation, 1)?; ...`
FacadeReturn ==
    /\ pc = "after_receive"
    /\ result' = IF Kind(rxres) = "Err" THEN rxres ELSE Reply(cmd, buf)
    /\ pc' = "idle"
    /\ UNCHANGED <<fn, cmd, op, pins, ack, ctlLog, exVars, rxVars, events, csAtRet,
                   pinErr, rdVars, wfbVars, sampled>>

----------------------------------------------------------------------------
(* Compound commands (spi.rs): receive_data and resolve call facade         *)
(* commands in sequence. In this part a facade command is one step: the     *)
(* round trip happens within the step and what it returns is drawn from     *)
(* what receive / receive_data16 return.                                    *)

\* How often the peer reports "nothing available", and how many chunks a
\* receive_data call is followed for
MaxPolls == 2
MaxChunks == 3

\* Available lengths the peer may report, and chunk lengths it may deliver
PeerAvail == {0, 1, 3, 5743, 5744, 5745}
PeerChunkLens == {0, 1, 2, 2872, 3000, 5745}

\* The errors a round trip can return: receive drops the error of
\* check_response_ready, receive_data16 returns it
ReceiveErrors == {"TooManyParameters"}
ReceiveData16Errors ==
    {"CommunicationTimeout", "NinaProtocolVersionMismatch", "InvalidCommand",
     "InvalidNumberOfParameters"}

\* A buffer of a compound command is kept as its runs <<stream, offset, len>>:
\* len bytes, the i-th of them PatByte(stream, offset + i)
Run(stream, off, len) == <<stream, off % Len(stream), len>>
RunLen(r) == r[3]
ZeroRuns == <<Run(<<0>>, 0, MAX_NINA_RESPONSE_LENGTH)>>

\* The first k bytes of a buffer, the buffer without them, and its p-th byte
RECURSIVE Take(_, _)
Take(runs, k) ==
    IF k <= 0 \/ runs = <<>> THEN <<>>
    ELSE LET r == Head(runs)
         IN IF RunLen(r) = 0 THEN Take(Tail(runs), k)
            ELSE IF RunLen(r) >= k THEN <<Run(r[1], r[2], k)>>
            ELSE <<r>> \o Take(Tail(runs), k - RunLen(r))
RECURSIVE Drop(_, _)
Drop(runs, k) ==
    IF runs = <<>> THEN <<>>
    ELSE IF k <= 0 THEN runs
    ELSE LET r == Head(runs)
         IN IF RunLen(r) > k
            THEN <<Run(r[1], r[2] + k, RunLen(r) - k)>> \o Tail(runs)
            ELSE Drop(Tail(runs), k - RunLen(r))
RECURSIVE At(_, _)
At(runs, p) ==
    LET r == Head(runs)
    IN IF p <= RunLen(r) THEN PatByte(r[1], r[2] + p)
       ELSE At(Tail(runs), p - RunLen(r))

\* read_response_bytes on a zeroed buffer, as runs
read_response_runs(len, stream) ==
    IF bytes_taken(len) = 0 THEN ZeroRuns
    ELSE Take(<<Run(stream, 0, bytes_taken(len))>> \o ZeroRuns,
              MAX_NINA_RESPONSE_LENGTH)

\* The buffer receive returns for a reply of the given payload bytes
ReplyBuffer(bytes) == read_response_runs(Len(bytes), bytes)

\* the reassembled length as it is, for every value
avail_data_tcp_raw(res) == combine_2_bytes(At(res, 1), At(res, 2))

\* avail_data_tcp on the buffer receive returned (result[0] is the 1st byte)
avail_data_tcp(res) ==
    LET n == combine_2_bytes(At(res, 1), At(res, 2))
    IN IF n = 5744 THEN 5743 ELSE n

\* calls holds <<what, value>>: the delay's milliseconds, the value a
\* facade command's reply carried (-1: the command returned an error)
Call(what, value) == <<what, value>>
Calls(c) == Cardinality({i \in DOMAIN calls : calls[i][1] = c})

InitCompound ==
    /\ pc = "idle"
    /\ fn = "none"
    /\ cmd = "none"
    /\ op = NoOp
    /\ cs = "high"
    /\ gpio0 = "high"
    /\ resetn = "high"
    /\ ack = "low"
    /\ ctlLog = <<>>
    /\ tx = <<>>
    /\ pidx = 0
    /\ tpl = 0
    /\ tpls = 0
    /\ npad = 0
    /\ nread = 0
    /\ hdr = "none"
    /\ rlen = 0
    /\ npay = 0
    /\ endb = -1
    /\ errFirst = FALSE
    /\ lenb = <<>>
    /\ buf = NoBuf
    /\ rxres = NoRes
    /\ result = NoRes
    /\ events = <<>>
    /\ csAtRet = "none"
    /\ pinErr = FALSE
    /\ sampled = "none"
    /\ startAt = 0
    /\ errAt = 0
    /\ extraStart = FALSE
    /\ available_data_length = 0
    /\ data_length = 0
    /\ result_buffer_idx = 0
    /\ result_buffer = NoBuf
    /\ response_buffer = NoBuf
    /\ ip_address = <<0, 0, 0, 0>>
    /\ calls = <<>>
    /\ maxIdx = -1

\* The variables of the byte-level engine that a compound step leaves alone
engineVars ==
    <<fn, op, gpio0, resetn, ack, ctlLog, exVars, nread, hdr, rlen, npay, endb,
      errFirst, lenb, events, csAtRet, pinErr, wfbVars, sampled>>

\* receive_data is called
ReceiveData ==
    /\ pc = "idle"
    /\ cmd' = "receive_data"
    /\ pc' = "rd_delay"
    /\ result' = NoRes
    /\ rxres' = NoRes
    /\ available_data_length' = 0
    /\ data_length' = 0
    /\ result_buffer_idx' = 0
    /\ result_buffer' = NoBuf
    /\ response_buffer' = NoBuf
    /\ ip_address' = <<0, 0, 0, 0>>
    /\ calls' = <<>>
    /\ maxIdx' = -1
    /\ UNCHANGED <<cs, buf, engineVars>>

\* a delay that is made before the first poll only
ReceiveDataDelayOnce ==
    /\ pc = "rd_delay"
    /\ cmd = "receive_data"
    /\ calls' = IF calls = <<>> THEN Append(calls, Call("delay_ms", 50))
                ELSE calls
    /\ pc' = "rd_avail"
    /\ UNCHANGED <<cmd, cs, buf, rxres, result, available_data_length, data_length,
                   result_buffer_idx, result_buffer, response_buffer, maxIdx,
                   ip_address, engineVars>>

\* delay.delay_ms(50);
ReceiveDataDelay ==
    /\ pc = "rd_delay"
    /\ cmd = "receive_data"
    /\ calls' = Append(calls, Call("delay_ms", 50))
    /\ pc' = "rd_avail"
    /\ UNCHANGED <<cmd, cs, buf, rxres, result, available_data_length, data_length,
                   result_buffer_idx, result_buffer, response_buffer, maxIdx,
                   ip_address, engineVars>>

\* available_data_length = self.avail_data_tcp(socket)?;
\* if available_data_length > 0 { break; }   and the locals declared after
\* the loop
ReceiveDataAvailDataTcp ==
    /\ pc = "rd_avail"
    /\ \/ \E e \in ReceiveErrors :
            /\ calls' = Append(calls, Call("avail_data_tcp", -1))
            /\ rxres' = Err(e)
            /\ result' = Err(e)
            /\ pc' = "idle"
            /\ UNCHANGED <<available_data_length, data_length,
                           result_buffer_idx, result_buffer>>
       \/ \E n \in PeerAvail :
            /\ n = 0 => Calls("avail_data_tcp") < MaxPolls
            /\ calls' = Append(calls, Call("avail_data_tcp", n))
            /\ rxres' = Ok
            /\ available_data_length' =
                   avail_data_tcp(ReplyBuffer(<<n % 256, n \div 256>>))
            /\ IF available_data_length' > 0
               THEN /\ pc' = "rd_while"
                    /\ data_length' = 0
                    /\ result_buffer_idx' = 0
                    /\ result_buffer' = ZeroRuns
               ELSE /\ pc' = "rd_delay"
                    /\ UNCHANGED <<data_length, result_buffer_idx, result_buffer>>
            /\ UNCHANGED result
    /\ cs' = "high"
    /\ UNCHANGED <<cmd, buf, response_buffer, maxIdx, ip_address, engineVars>>

\* while available_data_length > data_length
\*       && data_length < MAX_NINA_RESPONSE_LENGTH
WhileCondition ==
    available_data_length > data_length /\ data_length < MAX_NINA_RESPONSE_LENGTH

\* let (current_length, response_buffer) =
\*     self.get_data_buf_tcp(socket, available_data_length)?;
ReceiveDataGetDataBufTcp ==
    /\ pc = "rd_while"
    /\ WhileCondition
    /\ Calls("get_data_buf_tcp") < MaxChunks
    /\ \/ \E e \in ReceiveData16Errors :
            /\ calls' = Append(calls, Call("get_data_buf_tcp", -1))
            /\ rxres' = Err(e)
            /\ result' = Err(e)
            /\ cs' = "low"
            /\ pc' = "idle"
            /\ UNCHANGED response_buffer
       \/ \E c \in PeerChunkLens, stream \in PeerPayloads :
            /\ calls' = Append(calls, Call("get_data_buf_tcp", c))
            /\ rxres' = OkLen(c)
            /\ response_buffer' = read_response_runs(c, stream)
            /\ cs' = "high"
            /\ pc' = "rd_copy"
            /\ UNCHANGED result
    /\ UNCHANGED <<cmd, buf, available_data_length, data_length,
                   result_buffer_idx, result_buffer, maxIdx, ip_address,
                   engineVars>>

Panic(why) == Res("Panic", why, 0)

\* usize arithmetic of `current_length - 1`: with overflow checks the
\* subtraction panics at 0, without them it wraps to usize::MAX
CopyOutcomes(current_length) ==
    IF current_length = 0 THEN {"wrap", "panic"} ELSE {"exact"}

\* The iterations `for i in 0..(current_length - 1)` asks for. usize::MAX is
\* more than either buffer holds, and the loop ends at the first index that
\* is out of bounds: any count above the buffer's length stands for it
copy_count(current_length) ==
    IF current_length = 0 THEN MAX_NINA_RESPONSE_LENGTH + 1
    ELSE current_length - 1

\* result_buffer after `result_buffer[result_buffer_idx] = response_buffer[i];
\* result_buffer_idx += 1;` ran for i in 0..n (positions count from 1 here)
copy_chunk(dst, idx, src, n) ==
    Take(dst, idx) \o Take(src, n) \o Drop(dst, idx + n)

\* for i in 0..(current_length - 1) { .. }
\* result_buffer_idx += 1;
\* data_length += current_length
\* An index past the end of response_buffer (read first) or of result_buffer
\* panics
ReceiveDataCopy ==
    /\ pc = "rd_copy"
    /\ \E outcome \in CopyOutcomes(LenOf(rxres)) :
        LET n == copy_count(LenOf(rxres))
            room == MAX_NINA_RESPONSE_LENGTH - result_buffer_idx
            done == Min(n, room)
        IN IF outcome = "panic"
           THEN /\ pc' = "panic"
                /\ result' = Panic("attempt to subtract with overflow")
                /\ UNCHANGED <<result_buffer, result_buffer_idx, data_length,
                               maxIdx>>
           ELSE IF n > room
           THEN /\ pc' = "panic"
                /\ result' = Panic("index out of bounds")
                /\ result_buffer' =
                       copy_chunk(result_buffer, result_buffer_idx, response_buffer,
                                  done)
                /\ result_buffer_idx' = result_buffer_idx + done
                /\ maxIdx' = IF result_buffer_idx = 0
                             THEN MAX_NINA_RESPONSE_LENGTH - 1
                             ELSE MAX_NINA_RESPONSE_LENGTH
                /\ UNCHANGED data_length
           ELSE /\ pc' = "rd_while"
                /\ result_buffer' =
                       copy_chunk(result_buffer, result_buffer_idx, response_buffer, n)
                /\ result_buffer_idx' = result_buffer_idx + n + 1
                /\ data_length' = data_length + LenOf(rxres)
                /\ maxIdx' = IF n > 0 /\ result_buffer_idx + n - 1 > maxIdx
                             THEN result_buffer_idx + n - 1 ELSE maxIdx
                /\ UNCHANGED result
    /\ UNCHANGED <<cmd, cs, buf, rxres, available_data_length, response_buffer,
                   calls, ip_address, engineVars>>

\* Ok(result_buffer)
ReceiveDataReturn ==
    /\ pc = "rd_while"
    /\ ~WhileCondition
    /\ result' = Ok
    /\ pc' = "idle"
    /\ UNCHANGED <<cmd, cs, buf, rxres, rdVars, engineVars>>

\* Reply bytes the peer may send to ReqHostByName and to GetHostByName
PeerAcks == {<<1>>, <<0>>, <<2>>, <<>>}
PeerIps ==
    {<<255, 255, 255, 255>>, <<8, 8, 8, 8>>, <<255, 255, 255, 0>>,
     <<255, 255, 255, 255, 7>>, <<10, 0>>, <<>>}

\* let dummy: IpAddress = [255, 255, 255, 255];
dummy == <<255, 255, 255, 255>>

\* result.split_at(4), as the bytes after the first
split_at_1(res) == <<At(res, 2), At(res, 3), At(res, 4), At(res, 5)>>

\* let (ip_slice, _) = result.split_at(4);
split_at_4(res) == <<At(res, 1), At(res, 2), At(res, 3), At(res, 4)>>

\* resolve is called; req_host_by_name builds its parameter from hostname
Resolve ==
    /\ pc = "idle"
    /\ cmd' = "resolve"
    /\ \E l \in SmallLens :
        IF Built(NinaSmallParam(l, <<119>>))
        THEN /\ pc' = "rs_req"
             /\ result' = NoRes
        ELSE /\ pc' = "idle"
             /\ result' = Err("PayloadTooLarge")
    /\ rxres' = NoRes
    /\ response_buffer' = NoBuf
    /\ ip_address' = <<0, 0, 0, 0>>
    /\ calls' = <<>>
    /\ available_data_length' = 0
    /\ data_length' = 0
    /\ result_buffer_idx' = 0
    /\ result_buffer' = NoBuf
    /\ maxIdx' = -1
    /\ UNCHANGED <<cs, buf, engineVars>>

\* req_host_by_name: execute, receive, `if result[0] != 1u8 { return
\* Err(DnsResolveFailed) }`
ResolveReqHostByName ==
    /\ pc = "rs_req"
    /\ \/ \E e \in ReceiveErrors :
            /\ calls' = Append(calls, Call("req_host_by_name", -1))
            /\ rxres' = Err(e)
            /\ result' = Err(e)
            /\ pc' = "idle"
            /\ UNCHANGED response_buffer
       \/ \E bytes \in PeerAcks :
            /\ response_buffer' = ReplyBuffer(bytes)
            /\ calls' = Append(calls,
                               Call("req_host_by_name", At(response_buffer', 1)))
            /\ rxres' = Ok
            /\ IF At(response_buffer', 1) # 1
               THEN /\ result' = Err("DnsResolveFailed")
                    /\ pc' = "idle"
               ELSE /\ pc' = "rs_get"
                    /\ UNCHANGED result
    /\ cs' = "high"
    /\ UNCHANGED <<cmd, buf, available_data_length, data_length, result_buffer_idx,
                   result_buffer, ip_address, maxIdx, engineVars>>

\* get_host_by_name, and what resolve makes of the reply
ResolveGetHostByName ==
    /\ pc = "rs_get"
    /\ \/ \E e \in ReceiveErrors :
            /\ calls' = Append(calls, Call("get_host_by_name", -1))
            /\ rxres' = Err(e)
            /\ result' = Err(e)
            /\ UNCHANGED <<response_buffer, ip_address>>
       \/ \E bytes \in PeerIps :
            /\ response_buffer' = ReplyBuffer(bytes)
            /\ calls' = Append(calls, Call("get_host_by_name", Len(bytes)))
            /\ rxres' = Ok
            /\ ip_address' = split_at_4(response_buffer')
            /\ result' = IF ip_address' # dummy THEN Ok
                         ELSE Err("DnsResolveFailed")
    /\ pc' = "idle"
    /\ cs' = "high"
    /\ UNCHANGED <<cmd, buf, available_data_length, data_length, result_buffer_idx,
                   result_buffer, maxIdx, engineVars>>

NextCompound ==
    \/ ReceiveData \/ ReceiveDataDelay \/ ReceiveDataAvailDataTcp
    \/ ReceiveDataGetDataBufTcp \/ ReceiveDataCopy \/ ReceiveDataReturn
    \/ Resolve \/ ResolveReqHostByName \/ ResolveGetHostByName

SpecCompound == InitCompound /\ [][NextCompound]_vars

----------------------------------------------------------------------------

Next ==
    \/ PeerDrivesAck
    \/ InitCs \/ InitGpio0 \/ InitResetn \/ InitGetEspReady
    \/ ResetGpio0 \/ ResetCs \/ ResetResetnLow \/ ResetDelay10
    \/ ResetResetnHigh \/ ResetDelay750
    \/ GetFwVersion \/ SetPassphrase \/ StartClientTcp \/ SendData
    \/ GetDataBufTcp \/ Execute
    \/ WaitForEspReady \/ EspSelect \/ WaitForEspAck
    \/ ExecuteSendCmd \/ ExecuteSendParam \/ ExecuteSendEnd \/ ExecutePad
    \/ ExecuteDeselect \/ FacadeAfterExecute
    \/ WaitForByte \/ WaitForByteError \/ CheckCmdByte \/ CheckNumParams
    \/ ReceiveHeaderChecked \/ ReceiveData16HeaderChecked
    \/ ReadResponseLen \/ ReadResponse16Len \/ ReadResponseBytes \/ ReadEnd
    \/ ReceiveDeselect \/ FacadeReturn

Spec == Init /\ [][Next]_vars

----------------------------------------------------------------------------
(* split_word and combine_2_bytes on every input *)

\* every u16 and every pair of u8
Words == 0..MAX_LARGE_LEN
BytePairs == (0..MAX_SMALL_LEN) \X (0..MAX_SMALL_LEN)

\* what the word functions leave alone
wordsFrame ==
    <<fn, cmd, op, pins, ack, ctlLog, exVars, nread, hdr, npay, endb, errFirst,
      buf, rxres, result, events, csAtRet, pinErr, sampled, wfbVars,
      available_data_length, data_length, result_buffer_idx, result_buffer,
      response_buffer, ip_address, calls, maxIdx>>

\* a word in available_data_length (as get_data_buf_tcp passes it to
\* split_word) or two bytes in lenb (as read_response16 holds them)
InitWords ==
    /\ \/ /\ pc = "split_word"
          /\ available_data_length \in Words
          /\ lenb = <<>>
       \/ /\ pc = "combine_2_bytes"
          /\ available_data_length = 0
          /\ lenb \in BytePairs
    /\ rlen = 0
    /\ fn = "none" /\ cmd = "none" /\ op = NoOp
    /\ cs = "high" /\ gpio0 = "high" /\ resetn = "high" /\ ack = "low"
    /\ ctlLog = <<>> /\ tx = <<>> /\ pidx = 0 /\ tpl = 0 /\ tpls = 0
    /\ npad = 0 /\ nread = 0 /\ hdr = "none" /\ npay = 0 /\ endb = -1
    /\ errFirst = FALSE /\ buf = NoBuf /\ rxres = NoRes /\ result = NoRes
    /\ events = <<>> /\ csAtRet = "none" /\ pinErr = FALSE
    /\ sampled = "none" /\ startAt = 0 /\ errAt = 0 /\ extraStart = FALSE
    /\ data_length = 0 /\ result_buffer_idx = 0 /\ result_buffer = NoBuf
    /\ response_buffer = NoBuf /\ ip_address = <<0, 0, 0, 0>>
    /\ calls = <<>> /\ maxIdx = -1

\* split_word(word)
SplitWord ==
    /\ pc = "split_word"
    /\ lenb' = split_word(available_data_length)
    /\ pc' = "split_word_done"
    /\ UNCHANGED <<rlen, wordsFrame>>

\* combine_2_bytes(byte0, byte1)
Combine2Bytes ==
    /\ pc = "combine_2_bytes"
    /\ rlen' = combine_2_bytes(lenb[1], lenb[2])
    /\ pc' = "combine_2_bytes_done"
    /\ UNCHANGED <<lenb, wordsFrame>>

\* combine_2_bytes on the bytes of split_word, element 0 as byte0
CombineSplit ==
    /\ pc = "split_word_done"
    /\ rlen' = combine_2_bytes(lenb[1], lenb[2])
    /\ pc' = "combine_split_done"
    /\ UNCHANGED <<lenb, wordsFrame>>

\* combine_2_bytes on the bytes of split_word, element 1 as byte0: the
\* order in which read_response16 passes the two bytes it read
CombineSplitSwapped ==
    /\ pc = "split_word_done"
    /\ rlen' = combine_2_bytes(lenb[2], lenb[1])
    /\ pc' = "combine_swapped_done"
    /\ UNCHANGED <<lenb, wordsFrame>>

NextWords ==
    \/ SplitWord
    \/ Combine2Bytes
    \/ CombineSplit
    \/ CombineSplitSwapped

SpecWords == InitWords /\ [][NextWords]_vars

----------------------------------------------------------------------------
(* Properties *)

Returned == pc \in {"after_execute", "after_receive", "idle"}

\* C1: every call of execute, receive and receive_data16 drives chip-select
\* high again before it returns, on the success path and on every error path,
\* so chip-select is high whenever the engine is idle between calls.
C1_DeselectBeforeReturn ==
    /\ csAtRet # "none" => csAtRet = "high"
    /\ Returned => cs = "high"

\* C2: in both response variants, a reply whose command byte differs from
\* (command | 0x80) makes the call return InvalidCommand, and one whose
\* parameter count differs from the expected one makes it return
\* InvalidNumberOfParameters; in neither case is a buffer returned as success.
C2_HeaderMismatchRejected ==
    (pc = "after_receive" /\ hdr \in {"InvalidCommand", "InvalidNumberOfParameters"})
        => rxres = Err(hdr)

\* C3: when the first byte read while receiving a response is ERROR (0xEF),
\* the receive call returns NinaProtocolVersionMismatch and chip-select is
\* high when it returns.
C3_ErrorSentinel ==
    (pc = "after_receive" /\ errFirst)
        => /\ rxres = Err("NinaProtocolVersionMismatch")
           /\ cs = "high"

\* A command starts (or is refused): the step a facade command takes from idle
Started == pc = "idle" /\ pc' \in {"idle", "wait_ready"}
MaxPayload(w) == IF w = 1 THEN MAX_SMALL_LEN ELSE MAX_LARGE_LEN
TooLarge(ps) ==
    \E i \in 1..Len(ps) : length(ps[i]) > MaxPayload(length_size(ps[i]))

\* C4: a facade command one of whose parameters cannot be built (a payload
\* longer than its length width allows) returns PayloadTooLarge and performs
\* no bus transfer and no control-line operation: pins and bus are unchanged.
C4_TooLargeTouchesNothing ==
    [][(Started /\ TooLarge(Params(op')))
        => /\ pc' = "idle"
           /\ result' = Err("PayloadTooLarge")
           /\ cs' = cs /\ gpio0' = gpio0 /\ resetn' = resetn
           /\ tx' = <<>> /\ events' = <<>>
           /\ nread' = 0 /\ npay' = 0 /\ endb' = -1]_vars

C4_Witness ==
    /\ pc = "idle"
    /\ cmd = "set_passphrase"
    /\ length(Params(op)[1]) = MAX_SMALL_LEN + 1
    /\ result = Err("PayloadTooLarge")
    /\ cs = "high"

RECURSIVE SumLen(_)
SumLen(ps) == IF ps = <<>> THEN 0 ELSE length(Head(ps)) + SumLen(Tail(ps))
RECURSIVE SumSize(_)
SumSize(ps) == IF ps = <<>> THEN 0 ELSE length_size(Head(ps)) + SumSize(Tail(ps))
Framed(o) == 4 + SumSize(Params(o)) + SumLen(Params(o))
LeastPad(n) == CHOOSE k \in 0..3 : (n + k) % 4 = 0

\* C5: the number of one-byte transfers execute performs between acquire and
\* deselect is a multiple of 4, and the number of padding reads is the least
\* k >= 0 with (4 + sum W_i + sum L_i + k) mod 4 = 0.
C5_FrameMultipleOf4 ==
    pc = "after_execute"
        => /\ Len(tx) % 4 = 0
           /\ npad = LeastPad(Framed(op))
           /\ Len(tx) = Framed(op) + npad

C5_Witness ==
    /\ pc = "after_execute"
    /\ Len(Params(op)) = 2
    /\ length_size(Params(op)[1]) # length_size(Params(op)[2])
    /\ npad = 3

LenPrefix(p) ==
    IF length_size(p) = 1 THEN <<length(p)>>
    ELSE <<length(p) \div 256, length(p) % 256>>
RECURSIVE ParamsWire(_)
ParamsWire(ps) ==
    IF ps = <<>> THEN <<>>
    ELSE LenPrefix(Head(ps)) \o Bytes(length(Head(ps)), Pattern(Head(ps)))
            \o ParamsWire(Tail(ps))
Frame(o) ==
    <<START, Command(o) % REPLY, Len(Params(o))>> \o ParamsWire(Params(o)) \o <<END>>

\* C6: execute writes START, the command with bit 0x80 cleared, the parameter
\* count, each parameter's length bytes then payload bytes in the order the
\* parameters were appended, then exactly one END (with zero parameters too);
\* every byte sent after that END is a DUMMY padding read.
C6_FrameBytes ==
    pc = "after_execute"
        => LET f == Frame(op)
           IN /\ Len(tx) >= Len(f)
              /\ SubSeq(tx, 1, Len(f)) = f
              /\ \A i \in (Len(f) + 1)..Len(tx) : tx[i] = DUMMY

C6_Witness ==
    /\ pc = "after_execute"
    /\ Len(Params(op)) = 2
    /\ length(Params(op)[1]) = 1
    /\ length(Params(op)[2]) = 2
    /\ length_size(Params(op)[1]) = 2
    /\ length_size(Params(op)[2]) = 1

IsSelect(e) == e \in {"select", "deselect"}
IsFixed(e) == e \notin {"params", "padding"}

\* C7: within one command the observable events occur in exactly the order
\* acquire, request header, parameters, END, padding, deselect, acquire, read
\* reply header, read reply body, read END, deselect; select and deselect
\* strictly alternate and each occurs exactly twice.
C7_EventOrder ==
    (pc = "idle" /\ Kind(rxres) # "none")
        => /\ SelectSeq(events, IsSelect)
                = <<"select", "deselect", "select", "deselect">>
           /\ Kind(rxres) = "Ok"
                => SelectSeq(events, IsFixed)
                     = <<"select", "header", "end", "deselect", "select",
                         "read_header", "read_body", "read_end", "deselect">>

\* C8: a pin operation that reports an error during init, reset, select,
\* deselect or a handshake wait makes the engine surface IoError::Pin to its
\* caller.
C8_PinErrorSurfaced == pinErr => result = Err("IoError::Pin")

Count(log, e) == Cardinality({i \in DOMAIN log : log[i] = e})

\* C9: init drives chip-select, boot-mode and reset each high exactly once,
\* never drives any of them low, and samples the ready/ack line exactly once;
\* after init all three output lines are high.
C9_InitDrivesHighOnce ==
    [][(pc = "init_ready" /\ pc' = "idle")
        => /\ \A pin \in {"cs", "gpio0", "resetn"} :
                /\ Count(ctlLog', <<pin, "high">>) = 1
                /\ Count(ctlLog', <<pin, "low">>) = 0
           /\ Count(ctlLog', <<"ack", "is_low">>) = 1
           /\ Len(ctlLog') = 4
           /\ cs' = "high" /\ gpio0' = "high" /\ resetn' = "high"]_vars

C9_Witness ==
    /\ pc = "idle"
    /\ cmd = "none"
    /\ Len(ctlLog) = 4
    /\ ctlLog[4] = <<"ack", "is_low">>

\* C10: for every 16-bit length field [hi, lo] the peer can send,
\* receive_data16 returns (N, buffer) with N = hi*256 + lo, N <=
\* MAX_RESPONSE_LEN, having read exactly N payload bytes before the END byte.
C10_Length16 ==
    (pc = "after_receive" /\ cmd = "get_data_buf_tcp" /\ Kind(rxres) = "Ok")
        => /\ LenOf(rxres) = lenb[1] * 256 + lenb[2]
           /\ LenOf(rxres) <= MAX_NINA_RESPONSE_LENGTH
           /\ npay = LenOf(rxres)
           /\ endb # -1

\* C11: receive_data stays within its buffer: for every available length
\* and every sequence of chunk lengths, every index it uses to write into
\* result_buffer is below MAX_NINA_RESPONSE_LENGTH
C11_WriteIndexInBounds == maxIdx < MAX_NINA_RESPONSE_LENGTH

\* The values the calls of one kind carried, in order
RECURSIVE Values(_, _)
Values(log, c) ==
    IF log = <<>> THEN <<>>
    ELSE (IF Head(log)[1] = c THEN <<Head(log)[2]>> ELSE <<>>)
             \o Values(Tail(log), c)
\* The bytes of a buffer that were copied from a chunk
RECURSIVE PayloadBytes(_)
PayloadBytes(runs) ==
    IF runs = <<>> THEN 0
    ELSE (IF Head(runs)[1] = <<0>> THEN 0 ELSE RunLen(Head(runs)))
             + PayloadBytes(Tail(runs))

C12_Scenario ==
    /\ cmd = "receive_data"
    /\ pc = "idle"
    /\ Values(calls, "avail_data_tcp") = <<0, 5744>>
    /\ Len(Values(calls, "get_data_buf_tcp")) >= 2
    /\ SubSeq(Values(calls, "get_data_buf_tcp"), 1, 2) = <<2872, 2872>>

\* C12: when AvailDataTcp reports 0 and then 5744 and two GetDataBufTcp
\* calls deliver 2872 bytes each, receive_data returns a buffer with 5743
\* bytes of payload after exactly two polls and two bulk reads
C12_TwoChunks ==
    C12_Scenario =>
        /\ result = Ok
        /\ Calls("avail_data_tcp") = 2
        /\ Calls("get_data_buf_tcp") = 2
        /\ PayloadBytes(result_buffer) = 5743

ResolveDone == cmd = "resolve" /\ pc = "idle"
ReqReply == Values(calls, "req_host_by_name")
GetReply == Values(calls, "get_host_by_name")
\* The first four bytes of the reply to GetHostByName
First4 == [i \in 1..4 |-> At(response_buffer, i)]
AllOnes == [i \in 1..4 |-> 255]

\* C13 as stated: DnsResolveFailed when the ReqHostByName reply byte is not
\* 1 (GetHostByName is then never issued) and when GetHostByName replies
\* 255.255.255.255; in every other case the first four reply bytes of
\* GetHostByName are returned as the address
C13_ResolveAsStated ==
    ResolveDone =>
        IF ReqReply # <<>> /\ ReqReply[1] \notin {-1, 1}
        THEN result = Err("DnsResolveFailed") /\ GetReply = <<>>
        ELSE IF GetReply # <<>> /\ GetReply[1] # -1 /\ First4 = AllOnes
        THEN result = Err("DnsResolveFailed")
        ELSE /\ result = Ok
             /\ GetReply # <<>>
             /\ GetReply[1] # -1
             /\ ip_address = First4

\* C13, amended: as stated, where "every other case" is every other case in
\* which the hostname was accepted as a parameter and both round trips
\* returned a reply; an error of parameter construction or of a round trip
\* is returned as it is, and GetHostByName is issued only after a reply
\* byte of 1
C13_Resolve ==
    ResolveDone =>
        /\ GetReply # <<>> => ReqReply = <<1>>
        /\ IF ReqReply = <<>> THEN result = Err("PayloadTooLarge")
           ELSE IF ReqReply[1] = -1 THEN result = Err("TooManyParameters")
           ELSE IF ReqReply[1] # 1
           THEN result = Err("DnsResolveFailed") /\ GetReply = <<>>
           ELSE IF GetReply[1] = -1 THEN result = Err("TooManyParameters")
           ELSE IF First4 = AllOnes THEN result = Err("DnsResolveFailed")
           ELSE result = Ok /\ ip_address = First4

\* resolve returned an address that shares three bytes with the dummy
C13_Witness ==
    /\ ResolveDone
    /\ result = Ok
    /\ ip_address = <<255, 255, 255, 0>>

\* C14: in receive_data every AvailDataTcp query comes right after a 50 ms
\* delay, with no command in between; a poll that reported 0 is followed by
\* another delay and poll; and GetDataBufTcp is issued only after a poll
\* reported a non-zero length
C14_PollPacing ==
    cmd = "receive_data" =>
        /\ \A i \in DOMAIN calls :
              calls[i][1] = "avail_data_tcp" =>
                  /\ i > 1
                  /\ calls[i - 1] = Call("delay_ms", 50)
        /\ \A i \in DOMAIN calls :
              calls[i] = Call("avail_data_tcp", 0) =>
                  IF i = Len(calls) THEN pc = "rd_delay"
                  ELSE /\ calls[i + 1] = Call("delay_ms", 50)
                       /\ (i + 1 = Len(calls) => pc = "rd_avail")
        /\ \A i \in DOMAIN calls :
              calls[i][1] = "get_data_buf_tcp" =>
                  \E j \in 1..(i - 1) :
                      /\ calls[j][1] = "avail_data_tcp"
                      /\ calls[j][2] > 0
                      /\ \A k \in (j + 1)..(i - 1) :
                            calls[k][1] = "get_data_buf_tcp"

\* two polls reported 0 before one reported 3, and a chunk was fetched
C14_Witness ==
    /\ cmd = "receive_data"
    /\ Values(calls, "avail_data_tcp") = <<0, 0, 3>>
    /\ Calls("delay_ms") = 3
    /\ Calls("get_data_buf_tcp") = 1

\* C15: in receive, once the reply header was accepted, a length byte N
\* above MAX_NINA_PARAMS returns TooManyParameters and no payload byte is
\* read; otherwise the call returns a buffer whose first N bytes are the
\* next N bytes read from the bus, in order, and whose other bytes are 0
C15_SmallResponse ==
    (pc = "after_receive" /\ Variant(cmd) = "receive" /\ hdr = "Ok") =>
        IF rlen > MAX_NINA_PARAMS
        THEN /\ rxres = Err("TooManyParameters")
             /\ npay = 0
             /\ endb = -1
        ELSE /\ rxres = Ok
             /\ npay = rlen
             /\ Len(buf) = MAX_NINA_RESPONSE_LENGTH
             /\ \E stream \in PeerPayloads :
                   \A i \in 1..MAX_NINA_RESPONSE_LENGTH :
                       buf[i] = IF i <= rlen THEN PatByte(stream, i) ELSE 0

\* receive accepted the header and returned a two-byte reply
C15_Witness ==
    /\ pc = "after_receive"
    /\ cmd = "get_fw_version"
    /\ hdr = "Ok"
    /\ rlen = 2
    /\ rxres = Ok
    /\ SubSeq(buf, 1, 3) = <<49, 46, 0>>

\* C16: wait_for_byte(START) makes at most RETRY_LIMIT reads when no ERROR
\* byte is seen: it returns success right after the first read that yields
\* START, with no further read, and returns CommunicationTimeout after
\* exactly RETRY_LIMIT reads none of which yielded START or ERROR
C16_WaitForByteBound ==
    /\ (pc = "wait_for_byte") =>
          nread < RETRY_LIMIT /\ startAt = 0 /\ errAt = 0
    /\ (pc = "check_cmd") =>
          startAt = nread /\ nread >= 1 /\ nread <= RETRY_LIMIT /\ errAt = 0
    /\ (pc = "hdr_done" /\ hdr = "CommunicationTimeout") =>
          nread = RETRY_LIMIT /\ startAt = 0 /\ errAt = 0
    /\ (pc = "hdr_done" /\ errAt = 0 /\ Len(lenb) = 0 /\ nread # 0) =>
          hdr = "CommunicationTimeout"

\* wait_for_byte gave up after RETRY_LIMIT reads
C16_Witness ==
    /\ pc = "hdr_done"
    /\ hdr = "CommunicationTimeout"
    /\ nread = RETRY_LIMIT

\* C17: when the k-th read of wait_for_byte (k <= RETRY_LIMIT) yields ERROR
\* and no earlier one yielded START, exactly two more bytes are read,
\* whatever they are, and NinaProtocolVersionMismatch is returned after k + 2
\* reads; START among the two does not make it a success
C17_ErrorConsumesTwo ==
    /\ (pc = "consume_err") =>
          errAt = nread /\ nread >= 1 /\ nread <= RETRY_LIMIT /\ startAt = 0
    /\ (pc = "hdr_done" /\ errAt # 0) =>
          /\ hdr = "NinaProtocolVersionMismatch"
          /\ errAt <= RETRY_LIMIT
          /\ nread = errAt + 2
          /\ startAt = 0
    /\ (pc = "hdr_done" /\ hdr = "NinaProtocolVersionMismatch") => errAt # 0
    /\ extraStart => hdr = "NinaProtocolVersionMismatch"

\* ERROR came on the last read the loop makes, and a START followed it
C17_Witness ==
    /\ pc = "hdr_done"
    /\ errAt = RETRY_LIMIT
    /\ nread = RETRY_LIMIT + 2
    /\ extraStart
    /\ hdr = "NinaProtocolVersionMismatch"

\* C18: wait_for_esp_select does wait_ready, select, wait_ack in that order:
\* chip-select is driven low only after the ready/ack line was sampled low,
\* the call returns only after the line was sampled high following the
\* select, and while the peer holds the line high the wait for ready neither
\* returns nor drives chip-select low
C18_AcquireOrder ==
    [][/\ (pc = "select" /\ pc' = "wait_ack") => (sampled = "low" /\ cs' = "low")
       /\ (cs' = "low" /\ cs # "low") => (pc = "select" /\ sampled = "low")
       /\ (pc = "wait_ready" /\ pc' = "select") => sampled' = "low"
       /\ (pc = "wait_ready" /\ ack = "high") =>
              (pc' \in {"wait_ready", "panic"} /\ cs' = cs)
       /\ (pc = "wait_ack" /\ pc' \notin {"wait_ack", "panic"}) =>
              /\ sampled' = "high"
              /\ cs = "low"
              /\ pc' = AfterSelect(fn)
       /\ (pc' \in {"send_cmd", "wait_for_byte"} /\ pc # pc') => pc = "wait_ack"
      ]_vars

\* execute has acquired the peer and is about to send
C18_Witness ==
    /\ pc = "send_cmd"
    /\ cs = "low"
    /\ sampled = "high"
    /\ events = <<"select">>

\* C19: reset does exactly: boot-mode high, chip-select high, reset low,
\* 10 ms delay, reset high, 750 ms delay; the reset line is low throughout
\* the 10 ms delay and high throughout the 750 ms delay, and when reset
\* returns chip-select, boot-mode and reset are all high
C19_ResetSequence ==
    [][/\ (pc = "reset_delay10" /\ pc' = "reset_high") =>
              (resetn = "low" /\ resetn' = "low")
       /\ (pc = "reset_delay750" /\ pc' = "idle") =>
              /\ resetn = "high" /\ resetn' = "high"
              /\ cs' = "high" /\ gpio0' = "high"
              /\ ctlLog' = << <<"gpio0", "high">>, <<"cs", "high">>,
                              <<"resetn", "low">>, <<"delay", "10">>,
                              <<"resetn", "high">>, <<"delay", "750">> >>
      ]_vars

\* reset has returned
C19_Witness ==
    /\ pc = "idle"
    /\ Len(ctlLog) = 6
    /\ ctlLog[6] = <<"delay", "750">>
    /\ resetn = "high"

\* C20: for each chunk of reported length c >= 1, receive_data copies chunk
\* bytes 0 .. c-2 to consecutive places of result_buffer from the write
\* index on, then advances the write index and data_length by c, so the
\* place after the copied bytes keeps its 0
C20_ChunkCopy ==
    [][(pc = "rd_copy" /\ LenOf(rxres) >= 1) =>
          LET c == LenOf(rxres)
              idx == result_buffer_idx
          IN /\ pc' = "rd_while"
             /\ result_buffer_idx' = idx + c
             /\ data_length' = data_length + c
             /\ \A i \in 1..(c - 1) :
                   At(result_buffer', idx + i) = At(response_buffer, i)
             /\ idx + c <= MAX_NINA_RESPONSE_LENGTH =>
                   At(result_buffer', idx + c) = 0
             /\ \A p \in 1..idx :
                   At(result_buffer', p) = At(result_buffer, p)
      ]_vars

\* C21: avail_data_tcp returns b1 * 256 + b0 for the first and second reply
\* payload bytes b0, b1, except that 5744 is returned as 5743; every other
\* value, also one above 5744, is returned as it is
C21_AvailValue ==
    [][(pc = "rd_avail" /\ calls'[Len(calls')][2] >= 0) =>
          LET n == calls'[Len(calls')][2]
              b0 == n % 256
              b1 == n \div 256
              v == b1 * 256 + b0
          IN /\ calls'[Len(calls')][1] = "avail_data_tcp"
             /\ available_data_length' = IF v = 5744 THEN 5743 ELSE v
      ]_vars

\* a poll to which the peer reported 5744, and receive_data took 5743
C21_Witness ==
    /\ cmd = "receive_data"
    /\ pc = "rd_while"
    /\ calls[Len(calls)] \in {Call("avail_data_tcp", 5744)}
    /\ available_data_length = 5743

\* C22: for all bytes x, y: combine_2_bytes(x, y) = (y << 8) | x; for every
\* 16-bit word w: split_word(w) = [w >> 8, w & 0xFF]; and
\* combine_2_bytes(split_word(w)[0], split_word(w)[1]) = w
C22_WordsAsStated ==
    /\ pc = "combine_2_bytes_done" => rlen = lenb[2] * 256 + lenb[1]
    /\ pc \in {"split_word_done", "combine_split_done", "combine_swapped_done"} =>
          lenb = <<available_data_length \div 256, available_data_length % 256>>
    /\ pc = "combine_split_done" => rlen = available_data_length

\* C22, as the code has it: the two functions are as stated; combining the
\* bytes of split_word(w) gives w when split_word(w)[1] is passed as byte0
\* and split_word(w)[0] as byte1, and gives w with its two bytes exchanged in
\* the order [0], [1]
C22_Words ==
    /\ pc = "combine_2_bytes_done" => rlen = lenb[2] * 256 + lenb[1]
    /\ pc \in {"split_word_done", "combine_split_done", "combine_swapped_done"} =>
          lenb = <<available_data_length \div 256, available_data_length % 256>>
    /\ pc = "combine_swapped_done" => rlen = available_data_length
    /\ pc = "combine_split_done" =>
          rlen = (available_data_length % 256) * 256
                   + available_data_length \div 256

\* the word 0x1670 split into 0x16, 0x70 and put together again
C22_Witness ==
    /\ pc = "combine_swapped_done"
    /\ available_data_length = 5744
    /\ lenb = <<22, 112>>
    /\ rlen = 5744

\* C23: in both response variants, once the payload has been read exactly
\* one more byte is read, at the END position, and its value does not affect
\* the result: the payload read stays as it is and the call returns
\* successfully whether the byte is END or not
C23_EndIgnored ==
    [][/\ pc = "read_end" =>
            /\ endb = -1 /\ endb' \in 0..255
            /\ \A i \in 1..Len(events) : events[i] # "read_end"
            /\ events' = Append(events, "read_end")
            /\ buf' = buf /\ npay' = npay /\ rlen' = rlen
            /\ Kind(rxres') = "Ok"
            /\ fn = "receive_data16" => LenOf(rxres') = rlen
            /\ pc' = "rx_deselect"
       /\ (pc = "rx_deselect" /\ endb # -1 /\ pc' # "panic") =>
            /\ pc' = "after_receive"
            /\ rxres' = rxres /\ buf' = buf /\ endb' = endb
            /\ events' = Append(events, "deselect")
       /\ (pc = "after_receive" /\ endb # -1) =>
            /\ buf' = buf
            /\ \/ Kind(result') = "Ok"
               \/ cmd = "start_client_tcp" /\ buf[1] # 1
      ]_vars

\* a reply with 2 payload bytes followed by a byte that is not END, returned
\* as a success
C23_Witness ==
    /\ pc = "idle"
    /\ endb # -1 /\ endb # END
    /\ npay = 2
    /\ Kind(result) = "Ok"

\* the steps of check_response_ready, read_response and read_response16
\* that read bytes from the bus
ReadSteps ==
    {"wait_for_byte", "consume_err", "check_cmd", "check_num", "read_len",
     "read_len16", "read_bytes", "read_end"}

\* C24: no bus transfer is performed while chip-select is high: in execute,
\* receive and receive_data16, also after a reply header was found wrong,
\* every byte is written or read between an acquire and its deselect
C24_TransferWhileSelected ==
    [][(Len(tx') > Len(tx) \/ pc \in ReadSteps) => cs = "low"]_vars

\* C25: for every chunk length the peer can report in a GetDataBufTcp reply,
\* 0 included, the loop of receive_data makes progress: the copy bound
\* current_length - 1 does not underflow, the iteration completes and
\* data_length is larger after it than before
C25_LoopProgress ==
    [][pc = "rd_copy" =>
          /\ result' # Panic("attempt to subtract with overflow")
          /\ pc' = "rd_while"
          /\ data_length' > data_length
      ]_vars

\* C26: the framed length S = 4 + sum W_i + sum L_i that execute computes in
\* u16 never exceeds 65535 for an operation whose parameters were accepted
\* at construction, so none of execute's sums overflows: no addition panics
\* and the sums held in u16 are the true sums
C26_FramedLengthFits ==
    fn = "execute" =>
        /\ Framed(op) <= MAX_LARGE_LEN
        /\ result = Panicked => pinErr
        /\ pc \in {"send_end", "pad"} =>
              /\ tpl = SumLen(Params(op))
              /\ tpls = SumSize(Params(op))

====
